---- MODULE Spec2Model ----
(***************************************************************************)
(* ShadowGraph: the anchor/node/edge store (schema.sql), the operations    *)
(* the Python server runs on it (upsert_node, upsert_anchor, add_edge,     *)
(* index_file, check_drift, deserialize, query_blast_radius), the           *)
(* extension's direct write path (ShadowDatabase.addThought), its copy of  *)
(* the database file and the watcher that merges .shadow/graph.jsonl.      *)
(***************************************************************************)
EXTENDS Integers, Sequences, FiniteSets, TLC

VARIABLES
    nodes, anchors, edges,  \* the tables of .vscode/shadow.db
    now,                    \* CURRENT_TIMESTAMP
    ops, last, pre,         \* operations run, the last one, the store it ran on
    qry, q, out,            \* query_blast_radius in progress
    graph,                  \* the lines of .shadow/graph.jsonl
    git,                    \* GitIntegrationManager: timer, mtimes, merges running
    mem,                    \* ShadowDatabase.db: the extension's copy of the file
    wr                      \* a write to shadow.db in progress

vars == <<nodes, anchors, edges, now, ops, last, pre, qry, q, out, graph, git, mem, wr>>

\* The extension side of the state.
side == <<graph, git, mem, wr>>

-----------------------------------------------------------------------------
(* Bounds of the model *)

MaxOps == 3
MaxClock == 1
MaxDepth == 2
MaxBatch == 1
MaxSyms == 1
MaxLocal == 1
MaxAnchors == 1
MaxEdges == 2
MaxRows == 100

-----------------------------------------------------------------------------
(* Value domains *)

Files == {"a.py"}

Symbols == {"function:charge", "function:convert"}

\* commands.ts / main.py: node_id = f"code:{file_path}:{symbol_name}"
CodeNodeId(filePath, symbolName) == <<"code", filePath, symbolName>>

\* database.ts: thoughtId = `thought:${uuid}`
ThoughtIds == {<<"thought", "u1">>}

NodeIds == {CodeNodeId(f, s) : f \in Files, s \in Symbols} \cup ThoughtIds

Types == {"CODE_BLOCK", "THOUGHT"}

Relations == {"DEPENDS_ON", "HAS_THOUGHT"}

\* Symbol texts: a body, the same body reformatted, an edited body.
Texts == {<<"x", "1">>, <<"x", " ", "1">>, <<"x", "2">>}

\* Contents given to upsertNode, addThought and serialized records.
Contents == {<<"x", "1">>, <<"x", "2">>}

Whitespace == {" ", "\t", "\n"}

RECURSIVE StripWs(_)
StripWs(t) ==
    IF t = <<>> THEN <<>>
    ELSE IF Head(t) \in Whitespace THEN StripWs(Tail(t))
         ELSE <<Head(t)>> \o StripWs(Tail(t))

\* compute_ast_hash with a fault: the text is hashed as it is.
compute_ast_hash_raw(t) == t

\* compute_ast_hash: SHA-256 of the whitespace-stripped text.  The digest is
\* modelled as the normalized text itself (collision-free).
compute_ast_hash(t) == StripWs(t)

Hashes == {compute_ast_hash(t) : t \in Texts}

Lines == {1, 2}

-----------------------------------------------------------------------------
(* The database: three tables of schema.sql *)

DB(n, a, e) == [nodes |-> n, anchors |-> a, edges |-> e]

NodeRow(type, content, ts) == [type |-> type, content |-> content, created_at |-> ts]

AnchorRow(nodeId, filePath, symbolName, hash, line, status) ==
    [node_id |-> nodeId, file_path |-> filePath, symbol_name |-> symbolName,
     ast_hash |-> hash, start_line |-> line, status |-> status]

EdgeRow(s, t, r) == [source_id |-> s, target_id |-> t, relation |-> r]

\* PRIMARY KEY (node_id, file_path, symbol_name)
AnchorKey(a) == <<a.node_id, a.file_path, a.symbol_name>>

\* DELETE FROM nodes WHERE id = ?; with foreign_keys on, ON DELETE CASCADE
\* removes the anchors and edges that reference the row.
DeleteNodeRow(db, fk, id) ==
    IF id \notin DOMAIN db.nodes THEN db
    ELSE DB([i \in DOMAIN db.nodes \ {id} |-> db.nodes[i]],
            IF fk THEN {a \in db.anchors : a.node_id # id} ELSE db.anchors,
            IF fk THEN {e \in db.edges : e.source_id # id /\ e.target_id # id}
                  ELSE db.edges)

\* INSERT OR REPLACE INTO nodes (id, type, content): a conflicting row is
\* deleted first (cascading when foreign_keys is on); created_at takes its
\* DEFAULT CURRENT_TIMESTAMP.
InsertOrReplaceNode(db, fk, id, type, content, ts) ==
    LET d == DeleteNodeRow(db, fk, id)
    IN  DB([i \in DOMAIN d.nodes \cup {id} |->
               IF i = id THEN NodeRow(type, content, ts) ELSE d.nodes[i]],
           d.anchors, d.edges)

\* INSERT OR REPLACE INTO anchors: a row with the same primary key is
\* replaced; status is VALID.  With foreign_keys on, a node_id that is not
\* a node fails with "FOREIGN KEY constraint failed".
InsertOrReplaceAnchor(db, fk, nodeId, filePath, symbolName, hash, line) ==
    IF fk /\ nodeId \notin DOMAIN db.nodes
    THEN [ok |-> FALSE, db |-> db]
    ELSE LET new == AnchorRow(nodeId, filePath, symbolName, hash, line, "VALID")
         IN  [ok |-> TRUE,
              db |-> DB(db.nodes,
                        {a \in db.anchors : AnchorKey(a) # AnchorKey(new)} \cup {new},
                        db.edges)]

\* InsertOrIgnoreEdge with a fault: a plain INSERT, which fails on a tuple
\* that is already stored (UNIQUE constraint failed).
InsertEdge(db, fk, s, t, r) ==
    IF EdgeRow(s, t, r) \in db.edges THEN [ok |-> FALSE, db |-> db]
    ELSE IF fk /\ (s \notin DOMAIN db.nodes \/ t \notin DOMAIN db.nodes)
         THEN [ok |-> FALSE, db |-> db]
         ELSE [ok |-> TRUE, db |-> DB(db.nodes, db.anchors, db.edges \cup {EdgeRow(s, t, r)})]

\* INSERT OR IGNORE INTO edges: a duplicate tuple is ignored; with
\* foreign_keys on, a new tuple with a missing endpoint fails (OR IGNORE
\* does not cover it).
InsertOrIgnoreEdge(db, fk, s, t, r) ==
    IF EdgeRow(s, t, r) \in db.edges
    THEN [ok |-> TRUE, db |-> db]
    ELSE IF fk /\ (s \notin DOMAIN db.nodes \/ t \notin DOMAIN db.nodes)
         THEN [ok |-> FALSE, db |-> db]
         ELSE [ok |-> TRUE,
               db |-> DB(db.nodes, db.anchors, db.edges \cup {EdgeRow(s, t, r)})]

\* ShadowDB.connect: PRAGMA foreign_keys=ON
ServerForeignKeys == TRUE

\* ShadowDatabase.loadFromDisk: new SQL.Database(...) and no PRAGMA; SQLite
\* leaves foreign key enforcement off on a connection that does not ask for it.
ExtForeignKeys == FALSE

-----------------------------------------------------------------------------
(* State *)

Store == DB(nodes, anchors, edges)

NoOp == [op |-> "init", ok |-> TRUE, arg |-> <<>>]

Idle == [status |-> "idle", origin |-> <<>>, depth |-> 0]

\* GitIntegrationManager after construction: no timer, lastModified = 0.
\* skips counts the calls of onGraphJsonlChanged that returned at the mtime test.
GitIdle == [timer |-> FALSE, mtime |-> 0, lastModified |-> 0, merging |-> 0, skips |-> 0]

NoWrite == [active |-> FALSE, to |-> DB(<<>>, {}, {}), changed |-> FALSE]

\* The state after construction: applySchema on a new database.
Init ==
    /\ nodes = <<>>
    /\ anchors = {}
    /\ edges = {}
    /\ now = 0
    /\ ops = 0
    /\ last = NoOp
    /\ pre = DB(<<>>, {}, {})
    /\ qry = Idle
    /\ q = <<>>
    /\ out = <<>>
    /\ graph = <<>>
    /\ git = GitIdle
    /\ mem = DB(<<>>, {}, {})
    /\ wr = NoWrite

\* Write a store to the file; record the operation and the store it ran on.
Write(db, op, ok, arg) ==
    /\ nodes' = db.nodes
    /\ anchors' = db.anchors
    /\ edges' = db.edges
    /\ last' = [op |-> op, ok |-> ok, arg |-> arg]
    /\ pre' = Store
    /\ ops' = ops + 1
    /\ UNCHANGED <<now, qry, q, out>>

\* Commit a store with the extension idle: its shadow.db watcher reloads the
\* file before anything else happens.
Commit(db, op, ok, arg) ==
    /\ Write(db, op, ok, arg)
    /\ mem' = db
    /\ UNCHANGED <<graph, git, wr>>

\* CURRENT_TIMESTAMP advances between operations.
Tick ==
    /\ now < MaxClock
    /\ now' = now + 1
    /\ UNCHANGED <<nodes, anchors, edges, ops, last, pre, qry, q, out, side>>

-----------------------------------------------------------------------------
(* AnchorStore operations (server) *)

upsert_node(db, id, type, content, ts) ==
    InsertOrReplaceNode(db, ServerForeignKeys, id, type, content, ts)

upsert_anchor(db, nodeId, filePath, symbolName, hash, line) ==
    InsertOrReplaceAnchor(db, ServerForeignKeys, nodeId, filePath, symbolName, hash, line)

add_edge(db, s, t, r) == InsertOrIgnoreEdge(db, ServerForeignKeys, s, t, r)

delete_node(db, id) == DeleteNodeRow(db, ServerForeignKeys, id)

UpsertNode(id, type, content) ==
    /\ ops < MaxOps
    /\ Commit(upsert_node(Store, id, type, content, now), "upsertNode", TRUE,
              <<id, type, content>>)

UpsertAnchor(nodeId, filePath, symbolName, hash, line) ==
    /\ ops < MaxOps
    /\ LET r == upsert_anchor(Store, nodeId, filePath, symbolName, hash, line)
       IN  Commit(r.db, "upsertAnchor", r.ok, <<nodeId, filePath, symbolName, hash, line>>)

AddEdge(s, t, r) ==
    /\ ops < MaxOps
    /\ LET res == add_edge(Store, s, t, r)
       IN  Commit(res.db, "addEdge", res.ok, <<s, t, r>>)

DeleteNode(id) ==
    /\ ops < MaxOps
    /\ Commit(delete_node(Store, id), "deleteNode", TRUE, <<id>>)

-----------------------------------------------------------------------------
(* Indexing and drift detection (server) *)

\* What the external extractor yields for a file: symbols in source order.
Sym(symbolName, content, line) ==
    [symbol_name |-> symbolName, content |-> content, start_line |-> line]

SymRecords == {Sym(s, c, l) : s \in Symbols, c \in Texts, l \in Lines}

SeqsUpTo(S, n) == UNION {[1..k -> S] : k \in 0..n}

Extractions == SeqsUpTo(SymRecords, MaxSyms)

\* main.py index_file: for sym in symbols: upsert_node; upsert_anchor
RECURSIVE index_file(_, _, _, _)
index_file(db, filePath, symbols, ts) ==
    IF symbols = <<>> THEN db
    ELSE LET sym == Head(symbols)
             node_id == CodeNodeId(filePath, sym.symbol_name)
             d1 == upsert_node(db, node_id, "CODE_BLOCK", sym.content, ts)
             d2 == upsert_anchor(d1, node_id, filePath, sym.symbol_name,
                                 compute_ast_hash(sym.content), sym.start_line).db
         IN  index_file(d2, filePath, Tail(symbols), ts)

IndexFile(filePath, symbols) ==
    /\ ops < MaxOps
    /\ Commit(index_file(Store, filePath, symbols, now), "index", TRUE,
              <<filePath, symbols>>)

\* drift.py find_by_name: the first extracted symbol of that name, if any
find_by_name(symbols, name) ==
    LET hits == {j \in 1..Len(symbols) : symbols[j].symbol_name = name}
    IN  IF hits = {} THEN {}
        ELSE {symbols[CHOOSE j \in hits : \A k \in hits : j <= k]}

\* mark_stale with a fault: the row is rewritten without its hash.
mark_stale_drops_hash(a) == [a EXCEPT !.status = "STALE", !.ast_hash = <<>>]

\* ShadowDB.mark_stale(node_id, file_path, symbol_name)
mark_stale(a) == [a EXCEPT !.status = "STALE"]

\* Drifted with a fault: the raw text is compared with the stored hash.
DriftedRawText(a, filePath, symbols) ==
    /\ a.file_path = filePath
    /\ LET current == find_by_name(symbols, a.symbol_name)
       IN  \/ current = {}
           \/ \E c \in current : c.content # a.ast_hash

\* The test of check_drift with a fault: current['ast_hash'] is read without
\* the `not current` guard, and subscripting None raises a TypeError.
drift_test_unguarded(a, symbols) ==
    LET current == find_by_name(symbols, a.symbol_name)
    IN  IF current = {} THEN [raised |-> TRUE, value |-> FALSE]
        ELSE [raised |-> FALSE,
              value |-> \E c \in current : compute_ast_hash(c.content) # a.ast_hash]

\* The test of check_drift:
\*   not current or current['ast_hash'] != stored.ast_hash
\* `or` does not evaluate its right operand when current is None.
drift_test(a, symbols) ==
    LET current == find_by_name(symbols, a.symbol_name)
    IN  IF current = {} THEN [raised |-> FALSE, value |-> TRUE]
        ELSE [raised |-> FALSE,
              value |-> \E c \in current : compute_ast_hash(c.content) # a.ast_hash]

\* drift.py check_drift: a stored anchor of the file whose symbol is gone
\* or whose hash differs from the current one is marked stale.
Drifted(a, filePath, symbols) ==
    /\ a.file_path = filePath
    /\ ~drift_test(a, symbols).raised
    /\ drift_test(a, symbols).value

\* check_drift raises when the test of one of the file's anchors raises.
check_drift_raises(db, filePath, symbols) ==
    \E a \in db.anchors : a.file_path = filePath /\ drift_test(a, symbols).raised

check_drift(db, filePath, symbols) ==
    DB(db.nodes,
       {IF Drifted(a, filePath, symbols) THEN mark_stale(a) ELSE a : a \in db.anchors},
       db.edges)

\* The list check_drift returns: one entry per stored anchor it marked.
check_drift_stale(db, filePath, symbols) ==
    {a \in db.anchors : Drifted(a, filePath, symbols)}

CheckDrift(filePath, symbols) ==
    /\ ops < MaxOps
    /\ Commit(check_drift(Store, filePath, symbols), "checkDrift",
              ~check_drift_raises(Store, filePath, symbols),
              <<filePath, symbols, check_drift_stale(Store, filePath, symbols),
                \* the run before this one was check_drift on the same input
                last.op = "checkDrift" /\ last.arg[1] = filePath /\ last.arg[2] = symbols>>)


-----------------------------------------------------------------------------
(* Deserialize + merge (server) *)

NodeRecord(id, type, content, ts) ==
    [id |-> id, type |-> type, content |-> content, created_at |-> ts]

NodeRecords ==
    {NodeRecord(id, ty, c, ts) : id \in NodeIds, ty \in Types, c \in Contents, ts \in 0..MaxClock}

Batches == SeqsUpTo(NodeRecords, MaxBatch)

\* incoming[obj['id']] = obj: a later line with the same id replaces an earlier one
Incoming(lines) ==
    LET ids == {lines[i].id : i \in 1..Len(lines)}
        lastIdx(id) == CHOOSE i \in 1..Len(lines) :
                          /\ lines[i].id = id
                          /\ \A j \in 1..Len(lines) : lines[j].id = id => j <= i
    IN  [id \in ids |-> lines[lastIdx(id)]]

\* IncomingWins with a fault: the incoming record always overwrites.
IncomingAlwaysWins(incoming_obj, existing) == TRUE

\* Last-write-wins: the incoming record is applied when it is strictly later.
IncomingWins(incoming_obj, existing) == incoming_obj.created_at > existing.created_at

merge_node(db, incoming_obj, ts) ==
    IF incoming_obj.id \notin DOMAIN db.nodes
    THEN upsert_node(db, incoming_obj.id, incoming_obj.type, incoming_obj.content, ts)
    ELSE IF IncomingWins(incoming_obj, db.nodes[incoming_obj.id])
         THEN upsert_node(db, incoming_obj.id, incoming_obj.type, incoming_obj.content, ts)
         ELSE db

RECURSIVE merge_all(_, _, _, _)
merge_all(db, incoming, ids, ts) ==
    IF ids = {} THEN db
    ELSE LET id == CHOOSE i \in ids : TRUE
         IN  merge_all(merge_node(db, incoming[id], ts), incoming, ids \ {id}, ts)

deserialize_from_jsonl(db, lines, ts) ==
    LET incoming == Incoming(lines)
    IN  merge_all(db, incoming, DOMAIN incoming, ts)

Deserialize(lines) ==
    /\ ops < MaxOps
    /\ Commit(deserialize_from_jsonl(Store, lines, now), "deserialize", TRUE, <<lines>>)

-----------------------------------------------------------------------------
(* Extension write path *)

\* addThought with a fault: the edge to the symbol's node is not stored.
addThought_no_edge(db, filePath, symbolName, thoughtText, thoughtId, ts) ==
    [ok |-> TRUE,
     db |-> InsertOrReplaceNode(db, ExtForeignKeys, thoughtId, "THOUGHT", thoughtText, ts)]

\* ShadowDatabase.addThought: INSERT OR REPLACE INTO nodes, then INSERT OR
\* IGNORE INTO edges (the extension's addEdge), then saveToDisk.
addThought(db, filePath, symbolName, thoughtText, thoughtId, ts) ==
    LET codeNodeId == CodeNodeId(filePath, symbolName)
        d1 == InsertOrReplaceNode(db, ExtForeignKeys, thoughtId, "THOUGHT", thoughtText, ts)
    IN  InsertOrIgnoreEdge(d1, ExtForeignKeys, codeNodeId, thoughtId, "HAS_THOUGHT")

\* The statements run on the extension's copy; saveToDisk then writes the
\* whole copy over the file.
AddThought(filePath, symbolName, thoughtText, thoughtId) ==
    /\ ops < MaxOps
    /\ LET r == addThought(mem, filePath, symbolName, thoughtText, thoughtId, now)
       IN  \* a throw skips saveToDisk: the file keeps its content
           /\ Write(IF r.ok THEN r.db ELSE Store, "addThought", r.ok,
                    <<filePath, symbolName, thoughtText, thoughtId>>)
           /\ mem' = r.db
    /\ UNCHANGED <<graph, git, wr>>

\* What a read of the file can return while the server is writing it: the
\* pages of each table as they were or as they will be.
Torn(old, new) ==
    {DB(n, a, e) : n \in {old.nodes, new.nodes}, a \in {old.anchors, new.anchors},
                   e \in {old.edges, new.edges}}

\* The server starts a commit of index_file to shadow.db.
ServerBegin(filePath, symbols) ==
    /\ ~wr.active
    /\ ops < MaxOps
    /\ wr' = [active |-> TRUE, to |-> index_file(Store, filePath, symbols, now),
              changed |-> wr.changed]
    /\ last' = [op |-> "serverBegin", ok |-> TRUE, arg |-> <<filePath, symbols>>]
    /\ pre' = Store
    /\ UNCHANGED <<nodes, anchors, edges, now, ops, qry, q, out, graph, git, mem>>

\* The server's commit is complete.  If the extension saved its copy over
\* the file in between, the file is a mix of the two writes.
ServerEnd ==
    /\ wr.active
    /\ \E db \in (IF Store = pre THEN {wr.to} ELSE Torn(Store, wr.to)) :
          Write(db, "serverIndex", TRUE, <<>>)
    /\ wr' = NoWrite
    /\ UNCHANGED <<graph, git, mem>>

\* The shadow.db watcher fires: db.reload() reads the whole file.
Reload ==
    /\ mem # Store \/ wr.active
    /\ mem' \in (IF wr.active THEN Torn(Store, wr.to) ELSE {Store})
    /\ last' = [op |-> "reload", ok |-> TRUE,
                arg |-> <<Store, IF wr.active THEN wr.to ELSE Store>>]
    /\ pre' = Store
    /\ UNCHANGED <<nodes, anchors, edges, now, ops, qry, q, out, graph, git, wr>>

-----------------------------------------------------------------------------
(* Blast radius query (server) *)

Row(id, level, relation) == [id |-> id, level |-> level, relation |-> relation]

RECURSIVE SetToSeq(_)
SetToSeq(S) ==
    IF S = {} THEN <<>>
    ELSE LET x == CHOOSE y \in S : TRUE IN <<x>> \o SetToSeq(S \ {x})

\* Initial select: the origin's node at level 0.
OriginRows(db, symbolName) ==
    SetToSeq({Row(CodeNodeId(f, symbolName), 0, "ORIGIN") :
                 f \in {g \in Files : CodeNodeId(g, symbolName) \in DOMAIN db.nodes}})

\* Outgoing with a fault: the level cap is missing.
OutgoingUncapped(db, nb, depth) ==
    {Row(e.target_id, nb.level + 1, e.relation) :
        e \in {x \in db.edges : x.source_id = nb.id /\ x.target_id \in DOMAIN db.nodes}}

\* Recursive select, outgoing edges (dependencies):
\*   FROM nodes n JOIN edges e ON e.target_id = n.id ... WHERE nb.level < ?
Outgoing(db, nb, depth) ==
    IF nb.level < depth
    THEN {Row(e.target_id, nb.level + 1, e.relation) :
             e \in {x \in db.edges : x.source_id = nb.id /\ x.target_id \in DOMAIN db.nodes}}
    ELSE {}

\* Incomings with a fault: the dependents are looked up only by the first
\* call, later calls find none.
Incomings_first_call_only(db, nb, depth) ==
    IF nb.level < depth /\ last.op # "query"
    THEN {Row(e.source_id, nb.level + 1, "IMPACTS") :
             e \in {x \in db.edges : x.target_id = nb.id /\ x.source_id \in DOMAIN db.nodes}}
    ELSE {}

\* Recursive select, incoming edges (dependents):
\*   FROM nodes n JOIN edges e ON e.source_id = n.id ... WHERE nb.level < ?
Incomings(db, nb, depth) ==
    IF nb.level < depth
    THEN {Row(e.source_id, nb.level + 1, "IMPACTS") :
             e \in {x \in db.edges : x.target_id = nb.id /\ x.source_id \in DOMAIN db.nodes}}
    ELSE {}

\* UNION ALL: both selects contribute their rows, nothing is de-duplicated.
Expand(db, nb, depth) ==
    SetToSeq(Outgoing(db, nb, depth)) \o SetToSeq(Incomings(db, nb, depth))

QueryStart(symbolName, depth) ==
    /\ qry.status # "running"
    /\ qry' = [status |-> "running", origin |-> symbolName, depth |-> depth]
    /\ q' = OriginRows(Store, symbolName)
    /\ out' = <<>>
    /\ UNCHANGED <<nodes, anchors, edges, now, ops, last, pre, side>>

\* One round of the recursive CTE: take a row off the queue, add it to the
\* result, queue the rows the recursive selects derive from it.
QueryStep ==
    /\ qry.status = "running"
    /\ q # <<>>
    /\ Len(out) < MaxRows
    /\ out' = Append(out, Head(q))
    /\ q' = Tail(q) \o Expand(Store, Head(q), qry.depth)
    /\ UNCHANGED <<nodes, anchors, edges, now, ops, last, pre, qry, side>>

\* The rows of a result, each with the number of times it was returned.
ResultBag(rows) ==
    [r \in {rows[i] : i \in 1..Len(rows)} |->
        Cardinality({i \in 1..Len(rows) : rows[i] = r})]

QueryDone ==
    /\ qry.status = "running"
    /\ q = <<>>
    /\ qry' = [qry EXCEPT !.status = "done"]
    /\ UNCHANGED <<nodes, anchors, edges, now, ops, last, pre, q, out, side>>

\* QueryDone with the call recorded: its arguments, the rows returned, and
\* the rows of the call before it when that one had the same arguments.
QueryReturn ==
    /\ qry.status = "running"
    /\ q = <<>>
    /\ qry' = [qry EXCEPT !.status = "done"]
    /\ last' = [op |-> "query", ok |-> TRUE,
                arg |-> <<qry.origin, qry.depth, ResultBag(out),
                          IF last.op = "query" /\ last.arg[1] = qry.origin
                                /\ last.arg[2] = qry.depth
                          THEN <<last.arg[3]>> ELSE <<>> >>]
    /\ UNCHANGED <<nodes, anchors, edges, now, ops, pre, q, out, side>>

\* The rows reported as dependencies and dependents (the origin row excluded).
Reported == {i \in 1..Len(out) : out[i].level > 0}

-----------------------------------------------------------------------------
(* Constraints (server) *)

ConstraintIds == {<<"constraint", "k1">>, <<"constraint", "k2">>}

Severities == {"critical", "high", "low"}

\* A CONSTRAINT node: the rule text and the severity given to add_constraint.
ConstraintRow(severity, ts) == NodeRow("CONSTRAINT", <<"rule", severity>>, ts)

severity_of(row) == row.content[2]

\* ShadowDB.get_constraints_for_symbol: the CONSTRAINT nodes a REQUIRED_BY
\* edge reaches from a code node of the symbol.
get_constraints_for_symbol(db, symbolName) ==
    {c \in DOMAIN db.nodes :
        /\ db.nodes[c].type = "CONSTRAINT"
        /\ \E e \in db.edges :
              /\ e.relation = "REQUIRED_BY"
              /\ e.target_id = c
              /\ \E f \in Files : e.source_id = CodeNodeId(f, symbolName)}

\* main.py add_thought: the THOUGHT node is upserted, then the edge from
\* the symbol's code node is added inside try/except; on a FOREIGN KEY
\* error an error response is returned.  Nothing undoes the upsert.
add_thought(db, filePath, symbolName, thoughtText, thoughtId, ts) ==
    LET d1 == upsert_node(db, thoughtId, "THOUGHT", thoughtText, ts)
        r == add_edge(d1, CodeNodeId(filePath, symbolName), thoughtId, "HAS_THOUGHT")
    IN  IF r.ok THEN r ELSE [ok |-> FALSE, db |-> d1]

ServerAddThought(filePath, symbolName, thoughtText, thoughtId) ==
    /\ ops < MaxOps
    /\ LET r == add_thought(Store, filePath, symbolName, thoughtText, thoughtId, now)
       IN  Commit(r.db, "add_thought", r.ok, <<filePath, symbolName, thoughtText, thoughtId>>)

\* ConstraintValidator.add_constraint: upsert_node of the CONSTRAINT node,
\* then add_edge from the symbol's code node; an error of add_edge leaves
\* the function after the upsert.
add_constraint(db, filePath, symbolName, severity, constraintId, ts) ==
    LET d1 == upsert_node(db, constraintId, "CONSTRAINT", <<"rule", severity>>, ts)
        r == add_edge(d1, CodeNodeId(filePath, symbolName), constraintId, "REQUIRED_BY")
    IN  IF r.ok THEN r ELSE [ok |-> FALSE, db |-> d1]

AddConstraint(filePath, symbolName, severity, constraintId) ==
    /\ ops < MaxOps
    /\ LET r == add_constraint(Store, filePath, symbolName, severity, constraintId, now)
       IN  Commit(r.db, "add_constraint", r.ok, <<filePath, symbolName, severity, constraintId>>)

\* The inner loops of validate: for symbol in stale, for constraint in
\* constraints, a record when the severity is critical or high.
RECURSIVE violations_of(_, _)
violations_of(db, stale) ==
    IF stale = <<>> THEN <<>>
    ELSE SetToSeq({[constraint |-> c, symbol |-> Head(stale).symbol_name, status |-> "VIOLATED"] :
                     c \in {k \in get_constraints_for_symbol(db, Head(stale).symbol_name) :
                               severity_of(db.nodes[k]) \in {"critical", "high"}}})
         \o violations_of(db, Tail(stale))

\* ConstraintValidator.validate: stale = check_drift(db, file_path), then the
\* constraints of the stale symbols are read into the list it returns.
validate(db, filePath, symbols) ==
    [db |-> check_drift(db, filePath, symbols),
     violations |-> violations_of(db, SetToSeq(check_drift_stale(db, filePath, symbols)))]

Validate(filePath, symbols) ==
    /\ ops < MaxOps
    /\ LET r == validate(Store, filePath, symbols)
       IN  Commit(r.db, "validate", TRUE, <<filePath, symbols, r.violations>>)

-----------------------------------------------------------------------------
(* graph.jsonl: serialize, deserialize_database, the watcher *)

MaxFile == 2
MaxPulls == 2

\* hashlib.sha256(...).hexdigest(): one digest per input.
sha256(x) == <<"sha256", x>>

\* A node line: the row with its id and sync_id = sha256(id + content).
NodeLine(id, row) ==
    [kind |-> "node", id |-> id, type |-> row.type, content |-> row.content,
     created_at |-> row.created_at, sync_id |-> sha256(<<id, row.content>>)]

\* An edge line: the tuple with sync_id = sha256(source_id + target_id).
EdgeLine(e) ==
    [kind |-> "edge", source_id |-> e.source_id, target_id |-> e.target_id,
     relation |-> e.relation, sync_id |-> sha256(<<e.source_id, e.target_id>>)]

\* A line json.loads rejects.
BadLine == [kind |-> "malformed"]

\* Text order of the node ids and of the relations.
NodeOrder ==
    <<CodeNodeId("a.py", "function:charge"), CodeNodeId("a.py", "function:convert"),
      <<"thought", "u1">>>>

RelationOrder == <<"DEPENDS_ON", "HAS_THOUGHT">>

Rank(order, x) == CHOOSE i \in 1..Len(order) : order[i] = x

NodeRank(id) == Rank(NodeOrder, id)

EdgeRank(e) ==
    (NodeRank(e.source_id) * (Len(NodeOrder) + 1) + NodeRank(e.target_id))
        * (Len(RelationOrder) + 1) + Rank(RelationOrder, e.relation)

RECURSIVE SortSet(_, _)
SortSet(S, key) ==
    IF S = {} THEN <<>>
    ELSE LET m == CHOOSE x \in S : \A y \in S : key[x] <= key[y]
         IN  <<m>> \o SortSet(S \ {m}, key)

\* get_all_nodes with a fault: the rows come latest id first.
get_all_nodes_reversed(db) ==
    SortSet(DOMAIN db.nodes, [id \in DOMAIN db.nodes |-> 0 - NodeRank(id)])

\* db.get_all_nodes(): the node ids, sorted.
get_all_nodes(db) ==
    SortSet(DOMAIN db.nodes, [id \in DOMAIN db.nodes |-> NodeRank(id)])

\* db.get_all_edges(): the edges, sorted by (source, target, relation).
get_all_edges(db) == SortSet(db.edges, [e \in db.edges |-> EdgeRank(e)])

\* serializer.py: node lines, then edge lines.
serialize_to_jsonl(db) ==
    LET ns == get_all_nodes(db)
        es == get_all_edges(db)
    IN  [i \in 1..Len(ns) |-> NodeLine(ns[i], db.nodes[ns[i]])]
        \o [i \in 1..Len(es) |-> EdgeLine(es[i])]

IsNodeLine(l) == l.kind = "node"
IsEdgeLine(l) == l.kind = "edge"

\* The edge records of a file, merged after its nodes: each is inserted by
\* INSERT OR IGNORE; one whose endpoint is missing is skipped.
RECURSIVE merge_edges(_, _)
merge_edges(db, lines) ==
    IF lines = <<>> THEN db
    ELSE LET l == Head(lines)
             r == InsertOrIgnoreEdge(db, ServerForeignKeys,
                                     l.source_id, l.target_id, l.relation)
         IN  merge_edges(r.db, Tail(lines))

\* deserialize_database(graphPath, dbPath, merge_mode=True): json.loads of
\* every line first (a line it rejects raises, and the caller's except
\* reports one error), then the merge.
deserialize_database(db, lines, ts) ==
    IF \E i \in 1..Len(lines) : lines[i].kind = "malformed"
    THEN [ok |-> FALSE, db |-> db]
    ELSE [ok |-> TRUE,
          db |-> merge_edges(deserialize_from_jsonl(db, SelectSeq(lines, IsNodeLine), ts),
                             SelectSeq(lines, IsEdgeLine))]

\* A write to graph.jsonl: the file watcher calls handleChange, which
\* (re)arms the 500 ms timer.
Touch(g) == [g EXCEPT !.mtime = g.mtime + 1, !.timer = TRUE]

\* exportAndCommit: serialize_database(dbPath, graphPath)
ExportGraph ==
    /\ git.mtime < MaxPulls
    /\ graph' = serialize_to_jsonl(Store)
    /\ git' = Touch(git)
    /\ UNCHANGED <<nodes, anchors, edges, now, ops, last, pre, qry, q, out, mem, wr>>

\* The lines a git pull (or an edit) can leave in graph.jsonl.
NodeLines ==
    {NodeLine(id, NodeRow(IF id \in ThoughtIds THEN "THOUGHT" ELSE "CODE_BLOCK", c, ts)) :
        id \in NodeIds, c \in Contents, ts \in 0..MaxClock}

EdgeLines == {EdgeLine(EdgeRow(s, t, r)) : s \in NodeIds, t \in NodeIds, r \in Relations}

GraphFiles == SeqsUpTo(NodeLines \cup EdgeLines \cup {BadLine}, MaxFile)

\* git pull: graph.jsonl is replaced.
GitPull(lines) ==
    /\ git.mtime < MaxPulls
    /\ graph' = lines
    /\ git' = Touch(git)
    /\ UNCHANGED <<nodes, anchors, edges, now, ops, last, pre, qry, q, out, mem, wr>>

\* AlreadyProcessed with a fault: no version counts as processed.
AlreadyProcessedNever(g) == FALSE

\* if (stats.mtimeMs <= this.lastModified) return;
AlreadyProcessed(g) == g.mtime <= g.lastModified

\* The timer fires: onGraphJsonlChanged up to its await.  A version already
\* processed is skipped; otherwise the Python deserializer is spawned.
OnGraphJsonlChanged ==
    /\ git.timer
    /\ git' = IF AlreadyProcessed(git)
              THEN [git EXCEPT !.timer = FALSE, !.skips = git.skips + 1]
              ELSE [git EXCEPT !.timer = FALSE, !.lastModified = git.mtime,
                               !.merging = git.merging + 1]
    /\ UNCHANGED <<nodes, anchors, edges, now, ops, last, pre, qry, q, out, graph, mem, wr>>

\* A spawned deserializer ends: the merge is in the file, and on status ok
\* the extension reloads it.
\* reload_after with a fault: db.reload() is called whatever the status.
reload_always(ok, copy, file) == file

\* if (result.status === 'ok') this.db.reload(): the copy after the call.
reload_after(ok, copy, file) == IF ok THEN file ELSE copy

MergeDone ==
    /\ git.merging > 0
    /\ ops < MaxOps
    /\ LET r == deserialize_database(Store, graph, now)
       IN  /\ Write(r.db, "merge", r.ok, <<graph, mem>>)
           /\ mem' = reload_after(r.ok, mem, r.db)
    /\ git' = [git EXCEPT !.merging = git.merging - 1]
    /\ UNCHANGED <<graph, wr>>

\* The spawned python closes without printing JSON (it could not start):
\* JSON.parse throws, the promise is rejected and the catch block of
\* onGraphJsonlChanged shows an error.  No merge ran, no reload is called.
MergeNoOutput ==
    /\ git.merging > 0
    /\ last' = [op |-> "mergeNoOutput", ok |-> FALSE, arg |-> <<graph, mem>>]
    /\ pre' = Store
    /\ git' = [git EXCEPT !.merging = git.merging - 1]
    /\ UNCHANGED <<nodes, anchors, edges, now, ops, qry, q, out, graph, mem, wr>>

MaxEchoes == 1

\* A further change event for a version already on disk (the watcher
\* reports a write more than once, or create and change for one write).
ChangeEvent ==
    /\ git.mtime > 0
    /\ ~git.timer
    /\ git.skips < MaxEchoes
    /\ git' = [git EXCEPT !.timer = TRUE]
    /\ UNCHANGED <<nodes, anchors, edges, now, ops, last, pre, qry, q, out, graph, mem, wr>>

-----------------------------------------------------------------------------
(* Read projections of the extension (database.ts) *)

\* getThoughtsForSymbol: nodes JOIN edges ON target JOIN anchors ON source,
\* one row per joined triple, ORDER BY n.created_at DESC.
getThoughtsForSymbol(db, filePath, symbolName) ==
    LET J == {<<id, e, a>> \in (DOMAIN db.nodes) \X db.edges \X db.anchors :
                /\ e.target_id = id
                /\ a.node_id = e.source_id
                /\ a.file_path = filePath
                /\ a.symbol_name = symbolName
                /\ db.nodes[id].type = "THOUGHT"}
        sorted == SortSet(J, [j \in J |-> 0 - db.nodes[j[1]].created_at])
    IN  [db |-> db,
         rows |-> [i \in 1..Len(sorted) |->
                     [id |-> sorted[i][1], content |-> db.nodes[sorted[i][1]].content,
                      created_at |-> db.nodes[sorted[i][1]].created_at]]]

\* getAnchorsForFile: SELECT * FROM anchors WHERE file_path = :filePath
getAnchorsForFile(db, filePath) ==
    [db |-> db, rows |-> {a \in db.anchors : a.file_path = filePath}]

\* getStaleAnchors with a fault: the rows read are deleted from the copy.
getStaleAnchors_consuming(db, filePath) ==
    [db |-> DB(db.nodes,
               {a \in db.anchors : ~(a.file_path = filePath /\ a.status = "STALE")},
               db.edges),
     rows |-> {a \in db.anchors : a.file_path = filePath /\ a.status = "STALE"}]

\* getStaleAnchors: ... WHERE file_path = :filePath AND status = 'STALE'
getStaleAnchors(db, filePath) ==
    [db |-> db, rows |-> {a \in db.anchors : a.file_path = filePath /\ a.status = "STALE"}]

\* getSymbolNames: SELECT DISTINCT symbol_name FROM anchors WHERE file_path
getSymbolNames(db, filePath) ==
    [db |-> db, rows |-> {a.symbol_name : a \in {b \in db.anchors : b.file_path = filePath}}]

\* A read method returns: the copy is what the statements left, saveToDisk
\* is not called.
Select(r, op, arg) ==
    /\ mem' = r.db
    /\ last' = [op |-> op, ok |-> TRUE, arg |-> <<arg, r.rows, mem>>]
    /\ pre' = Store
    /\ UNCHANGED <<nodes, anchors, edges, now, ops, qry, q, out, graph, git, wr>>

GetThoughtsForSymbol(filePath, symbolName) ==
    Select(getThoughtsForSymbol(mem, filePath, symbolName), "getThoughtsForSymbol",
           <<filePath, symbolName>>)

GetAnchorsForFile(filePath) ==
    Select(getAnchorsForFile(mem, filePath), "getAnchorsForFile", <<filePath>>)

GetStaleAnchors(filePath) ==
    Select(getStaleAnchors(mem, filePath), "getStaleAnchors", <<filePath>>)

GetSymbolNames(filePath) ==
    Select(getSymbolNames(mem, filePath), "getSymbolNames", <<filePath>>)

-----------------------------------------------------------------------------
(* The debounce of the graph.jsonl watcher, with time (git-integration.ts) *)

\* setTimeout(..., 500), in ticks of 50 ms
DebounceDelay == 10

MaxEvents == 5

\* The pending timeouts (the time each has left), and the history of the
\* current burst: events seen, calls of onGraphJsonlChanged started, time
\* since the last event, and that time when the last call started.
DebounceIdle == [timers |-> {}, events |-> 0, total |-> 0, starts |-> 0, since |-> 0, firedAt |-> 0]

\* handleChange with a fault: the pending timeout is not cleared.
handleChange_no_clear(timers) == timers \cup {DebounceDelay}

\* handleChange: clearTimeout(this.debounceTimer); setTimeout(..., 500)
handleChange(timers) == {DebounceDelay}

\* onDidChange / onDidCreate deliver an event.  An event that arrives while
\* a timeout is pending continues the burst, another one starts a burst.
FileEvent ==
    /\ git.total < MaxEvents
    /\ git' = [git EXCEPT !.timers = handleChange(git.timers),
                          !.total = git.total + 1,
                          !.events = IF git.timers # {} THEN git.events + 1 ELSE 1,
                          !.starts = IF git.timers # {} THEN git.starts ELSE 0,
                          !.since = 0]
    /\ UNCHANGED <<nodes, anchors, edges, now, ops, last, pre, qry, q, out, graph, mem, wr>>

\* 50 ms pass; a timeout that is due runs first.
Elapse ==
    /\ git.timers # {}
    /\ 0 \notin git.timers
    /\ git' = [git EXCEPT !.timers = {w - 1 : w \in git.timers},
                          !.since = git.since + 1]
    /\ UNCHANGED <<nodes, anchors, edges, now, ops, last, pre, qry, q, out, graph, mem, wr>>

\* A timeout is due: its callback calls onGraphJsonlChanged.
TimerFires ==
    /\ 0 \in git.timers
    /\ git' = [git EXCEPT !.timers = git.timers \ {0},
                          !.starts = git.starts + 1,
                          !.firedAt = git.since]
    /\ UNCHANGED <<nodes, anchors, edges, now, ops, last, pre, qry, q, out, graph, mem, wr>>

-----------------------------------------------------------------------------
(* Specifications *)

Next ==
    \/ Tick
    \/ \E id \in NodeIds, ty \in Types, c \in Contents : UpsertNode(id, ty, c)
    \/ \E id \in NodeIds, f \in Files, s \in Symbols, h \in Hashes, l \in Lines :
          UpsertAnchor(id, f, s, h, l)
    \/ \E s \in NodeIds, t \in NodeIds, r \in Relations : AddEdge(s, t, r)
    \/ \E id \in NodeIds : DeleteNode(id)
    \/ \E f \in Files, s \in Symbols, c \in Contents, t \in ThoughtIds : AddThought(f, s, c, t)
    \/ \E f \in Files, x \in Extractions : IndexFile(f, x)
    \/ \E f \in Files, x \in Extractions : CheckDrift(f, x)
    \/ \E b \in Batches : Deserialize(b)

\* Every operation, from the empty store.
Spec == Init /\ [][Next]_vars

\* Stores the operations above can leave behind.  Anchors always reference a
\* node (the server enforces it, the extension writes no anchor); an edge's
\* target exists, its source may be missing only for the extension's
\* HAS_THOUGHT edge from a code node id.
DefaultRow(id) ==
    NodeRow(IF id \in ThoughtIds THEN "THOUGHT" ELSE "CODE_BLOCK", <<"x", "1">>, 0)

DefaultNodes == {[i \in D |-> DefaultRow(i)] : D \in SUBSET NodeIds}

EdgeShapes(n) ==
    {EdgeRow(s, t, r) : s \in NodeIds, t \in DOMAIN n, r \in Relations} \cap
    {e \in [source_id : NodeIds, target_id : NodeIds, relation : Relations] :
        \/ e.source_id \in DOMAIN n
        \/ e.relation = "HAS_THOUGHT" /\ e.target_id \in ThoughtIds
              /\ e.source_id \notin ThoughtIds}

AnchorShapes(n) ==
    {AnchorRow(id, f, s, h, l, st) :
        id \in DOMAIN n, f \in Files, s \in Symbols, h \in Hashes, l \in Lines,
        st \in {"VALID", "STALE"}}

UniqueKeys(as) == \A a, b \in as : AnchorKey(a) = AnchorKey(b) => a = b

RECURSIVE SetsUpTo(_, _)
SetsUpTo(S, n) ==
    IF n = 0 THEN {{}}
    ELSE LET P == SetsUpTo(S, n - 1) IN P \cup {x \cup {a} : x \in P, a \in S}

\* One operation left in the budget, the store drawn by the conjunct that follows.
InitOneOp ==
    /\ ops = MaxOps - 1
    /\ last = NoOp
    /\ pre = Store
    /\ qry = Idle
    /\ q = <<>>
    /\ out = <<>>
    /\ graph = <<>>
    /\ git = GitIdle
    /\ mem = Store
    /\ wr = NoWrite

\* index_file and check_drift on any store of nodes and anchors.
InitIndex ==
    /\ nodes \in DefaultNodes
    /\ anchors \in {as \in SetsUpTo(AnchorShapes(nodes), MaxAnchors) : UniqueKeys(as)}
    /\ edges = {}
    /\ now = 0
    /\ InitOneOp

NextIndex ==
    \/ \E f \in Files, x \in Extractions : IndexFile(f, x)
    \/ \E f \in Files, x \in Extractions : CheckDrift(f, x)

SpecIndex == InitIndex /\ [][NextIndex]_vars

\* deserialize into any store of at most MaxLocal nodes.
InitMerge ==
    /\ now \in 0..MaxClock
    /\ \E D \in SetsUpTo(NodeIds, MaxLocal) :
          nodes \in {[i \in D |-> [DefaultRow(i) EXCEPT !.created_at = ts[i]]] : ts \in [D -> 0..now]}
    /\ anchors = {}
    /\ edges = {}
    /\ InitOneOp

NextMerge == \E b \in Batches : Deserialize(b)

SpecMerge == InitMerge /\ [][NextMerge]_vars

\* query_blast_radius on any store of nodes and edges.
InitQuery ==
    /\ nodes \in DefaultNodes
    /\ anchors = {}
    /\ edges \in SetsUpTo(EdgeShapes(nodes), MaxEdges)
    /\ now = 0
    /\ InitOneOp

NextQuery ==
    \/ \E s \in Symbols, d \in 0..MaxDepth : QueryStart(s, d)
    \/ QueryStep
    \/ QueryDone

SpecQuery == InitQuery /\ [][NextQuery]_vars

\* Calls of query_blast_radius one after the other on the same store.
NextQueryTwice ==
    \/ \E s \in Symbols, d \in 0..MaxDepth : QueryStart(s, d)
    \/ QueryStep
    \/ QueryReturn

SpecQueryTwice == InitQuery /\ [][NextQueryTwice]_vars

\* The SQL engine runs a started statement to its end.
SpecQueryFair == SpecQuery /\ WF_vars(QueryStep) /\ WF_vars(QueryDone)

\* Export and merge of graph.jsonl on any store of nodes and edges.
InitRoundTrip ==
    /\ nodes \in DefaultNodes
    /\ anchors = {}
    /\ edges \in SetsUpTo(EdgeShapes(nodes), MaxEdges)
    /\ now \in 0..MaxClock
    /\ InitOneOp

NextRoundTrip ==
    \/ ExportGraph
    \/ OnGraphJsonlChanged
    \/ MergeDone

SpecRoundTrip == InitRoundTrip /\ [][NextRoundTrip]_vars

\* A pulled graph.jsonl merged into any store of nodes and at most MaxLocal
\* edges, by a watcher that has processed the versions before it.
InitPull ==
    /\ nodes \in DefaultNodes
    /\ anchors = {}
    /\ edges \in SetsUpTo(EdgeShapes(nodes), MaxLocal)
    /\ now = MaxClock
    /\ ops = MaxOps - 1
    /\ last = NoOp
    /\ pre = Store
    /\ qry = Idle
    /\ q = <<>>
    /\ out = <<>>
    /\ graph = <<>>
    /\ git = [timer |-> FALSE, mtime |-> MaxPulls - 1, lastModified |-> MaxPulls - 1,
              merging |-> 0, skips |-> 0]
    /\ mem = Store
    /\ wr = NoWrite

NextPull ==
    \/ \E f \in GraphFiles : GitPull(f)
    \/ OnGraphJsonlChanged
    \/ MergeDone

SpecPull == InitPull /\ [][NextPull]_vars

\* The server and the extension on one shadow.db, two writes left.
InitShared ==
    /\ nodes \in DefaultNodes
    /\ anchors = {}
    /\ edges = {}
    /\ now = 0
    /\ ops = MaxOps - 2
    /\ last = NoOp
    /\ pre = Store
    /\ qry = Idle
    /\ q = <<>>
    /\ out = <<>>
    /\ graph = <<>>
    /\ git = GitIdle
    /\ mem = Store
    /\ wr = NoWrite

NextShared ==
    \/ \E f \in Files, x \in Extractions : ServerBegin(f, x)
    \/ ServerEnd
    \/ Reload
    \/ \E f \in Files, s \in Symbols, c \in Contents, t \in ThoughtIds : AddThought(f, s, c, t)

SpecShared == InitShared /\ [][NextShared]_vars

\* validate on any store of nodes and anchors.
NextValidate == \E f \in Files, x \in Extractions : Validate(f, x)

SpecValidate == InitIndex /\ [][NextValidate]_vars

\* The extension's reads on any copy of the store: the copy is the file, or
\* the empty database loaded before the server wrote the file.
InitRead ==
    /\ nodes \in DefaultNodes
    /\ anchors \in {as \in SetsUpTo(AnchorShapes(nodes), MaxAnchors) : UniqueKeys(as)}
    /\ edges \in SetsUpTo({e \in EdgeShapes(nodes) : e.relation = "HAS_THOUGHT"}, MaxLocal)
    /\ now = 0
    /\ ops = MaxOps - 1
    /\ last = NoOp
    /\ pre = Store
    /\ qry = Idle
    /\ q = <<>>
    /\ out = <<>>
    /\ graph = <<>>
    /\ git = GitIdle
    /\ mem \in {Store, DB(<<>>, {}, {})}
    /\ wr = NoWrite

NextRead ==
    \/ \E f \in Files, y \in Symbols : GetThoughtsForSymbol(f, y)
    \/ \E f \in Files : GetAnchorsForFile(f)
    \/ \E f \in Files : GetStaleAnchors(f)
    \/ \E f \in Files : GetSymbolNames(f)

SpecRead == InitRead /\ [][NextRead]_vars

\* compute_ast_hash on any two texts of at most MaxText characters.
MaxText == 3

Chars == {"x", "1", " ", "\t", "\n"}

InitDigest ==
    /\ nodes = <<>>
    /\ anchors = {}
    /\ edges = {}
    /\ now = 0
    /\ ops = 0
    /\ last = NoOp
    /\ pre = Store
    /\ qry = Idle
    /\ q \in SeqsUpTo(Chars, MaxText) \X SeqsUpTo(Chars, MaxText)
    /\ out = <<>>
    /\ graph = <<>>
    /\ git = GitIdle
    /\ mem = Store
    /\ wr = NoWrite

Digest ==
    /\ last.op = "init"
    /\ out' = <<compute_ast_hash(q[1]), compute_ast_hash(q[2])>>
    /\ last' = [op |-> "digest", ok |-> TRUE, arg |-> <<>>]
    /\ UNCHANGED <<nodes, anchors, edges, now, ops, pre, qry, q, side>>

SpecDigest == InitDigest /\ [][Digest]_vars

\* check_drift twice on any store of nodes and anchors.
InitDrift ==
    /\ nodes \in DefaultNodes
    /\ anchors \in {as \in SetsUpTo(AnchorShapes(nodes), MaxAnchors) : UniqueKeys(as)}
    /\ edges = {}
    /\ now = 0
    /\ ops = MaxOps - 2
    /\ last = NoOp
    /\ pre = Store
    /\ qry = Idle
    /\ q = <<>>
    /\ out = <<>>
    /\ graph = <<>>
    /\ git = GitIdle
    /\ mem = Store
    /\ wr = NoWrite

NextDrift == \E f \in Files, x \in Extractions : CheckDrift(f, x)

SpecDrift == InitDrift /\ [][NextDrift]_vars

\* add_edge on any store of nodes and edges.
NextEdge == \E x \in NodeIds, t \in NodeIds, r \in Relations : AddEdge(x, t, r)

SpecEdge == InitQuery /\ [][NextEdge]_vars

\* A team member's empty database hydrates from the graph.jsonl that the
\* store serializes to: afterwards the store of the model is the team
\* member's, and pre is the store that was serialized.
Hydrate ==
    /\ ops < MaxOps
    /\ LET r == deserialize_database(DB(<<>>, {}, {}), serialize_to_jsonl(Store), now)
       IN  Commit(r.db, "hydrate", r.ok, <<>>)

SpecHydrate == InitRead /\ [][Hydrate]_vars

\* Events on graph.jsonl and the passing of time.
InitDebounce ==
    /\ nodes = <<>>
    /\ anchors = {}
    /\ edges = {}
    /\ now = 0
    /\ ops = 0
    /\ last = NoOp
    /\ pre = Store
    /\ qry = Idle
    /\ q = <<>>
    /\ out = <<>>
    /\ graph = <<>>
    /\ git = DebounceIdle
    /\ mem = Store
    /\ wr = NoWrite

NextDebounce ==
    \/ FileEvent
    \/ Elapse
    \/ TimerFires

SpecDebounce == InitDebounce /\ [][NextDebounce]_vars

\* A thought or a constraint is attached to a symbol on any store of nodes.
InitAttach ==
    /\ nodes \in DefaultNodes
    /\ anchors = {}
    /\ edges = {}
    /\ now = 0
    /\ InitOneOp

NextAttach ==
    \/ \E f \in Files, y \in Symbols, c \in Contents, t \in ThoughtIds : AddThought(f, y, c, t)
    \/ \E f \in Files, y \in Symbols, c \in Contents, t \in ThoughtIds : ServerAddThought(f, y, c, t)
    \/ \E f \in Files, y \in Symbols, v \in Severities, k \in ConstraintIds : AddConstraint(f, y, v, k)

SpecAttach == InitAttach /\ [][NextAttach]_vars

\* The files a pull leaves in the watcher's specification: records of the
\* thought, well-formed or not.
PulledFiles ==
    SeqsUpTo({l \in NodeLines : l.id \in ThoughtIds} \cup {BadLine}, MaxFile)

\* The graph.jsonl watcher on any store of at most MaxLocal nodes, with a
\* copy that is the file or the empty database loaded before the file was
\* written.
InitWatch ==
    /\ \E D \in SetsUpTo(NodeIds, MaxLocal) : nodes = [i \in D |-> DefaultRow(i)]
    /\ anchors = {}
    /\ edges = {}
    /\ now = MaxClock
    /\ ops = MaxOps - 1
    /\ last = NoOp
    /\ pre = Store
    /\ qry = Idle
    /\ q = <<>>
    /\ out = <<>>
    /\ graph = <<>>
    /\ git = [timer |-> FALSE, mtime |-> MaxPulls - 1, lastModified |-> MaxPulls - 1,
              merging |-> 0, skips |-> 0]
    /\ mem \in {Store, DB(<<>>, {}, {})}
    /\ wr = NoWrite

NextWatch ==
    \/ \E f \in PulledFiles : GitPull(f)
    \/ ChangeEvent
    \/ OnGraphJsonlChanged
    \/ MergeDone
    \/ MergeNoOutput

SpecWatch == InitWatch /\ [][NextWatch]_vars

\* deserialize_database run on the store for a file: the merge the watcher
\* starts, seen from the database.  Run a second time in a row it is given
\* the file of the first run.
MergeFile(lines) ==
    /\ ops < MaxOps
    /\ last.op = "mergeFile" => lines = last.arg[1]
    /\ LET r == deserialize_database(Store, lines, now)
       IN  Commit(r.db, "mergeFile", r.ok, <<lines, last.op = "mergeFile">>)

\* exportAndCommit followed by the merge its write of graph.jsonl starts:
\* the store deserializes its own serialization.
MergeOwn ==
    /\ ops < MaxOps
    /\ LET r == deserialize_database(Store, serialize_to_jsonl(Store), now)
       IN  Commit(r.db, "mergeOwn", r.ok, <<serialize_to_jsonl(Store)>>)

\* Two merges on any store of nodes and thought edges written at time 0.
InitSync ==
    /\ nodes \in DefaultNodes
    /\ anchors = {}
    /\ edges \in SetsUpTo({e \in EdgeShapes(nodes) : e.relation = "HAS_THOUGHT"}, MaxLocal)
    /\ now = 0
    /\ ops = MaxOps - 2
    /\ last = NoOp
    /\ pre = Store
    /\ qry = Idle
    /\ q = <<>>
    /\ out = <<>>
    /\ graph = <<>>
    /\ git = GitIdle
    /\ mem = Store
    /\ wr = NoWrite

NextSync ==
    \/ \E f \in GraphFiles : MergeFile(f)
    \/ MergeOwn
    \/ Tick

SpecSync == InitSync /\ [][NextSync]_vars

\* The stores a server can hold with at most MaxLocal nodes written up to
\* time t and at most MaxLocal edges, every edge between nodes of the store.
ServerStores(t) ==
    UNION {
        UNION {
            {DB(n, {}, es) :
                es \in SetsUpTo({e \in EdgeShapes(n) : e.source_id \in D /\ e.target_id \in D},
                                MaxLocal)} :
            n \in {[i \in D |-> NodeRow(DefaultRow(i).type, c[i], ts[i])] :
                      c \in [D -> Contents], ts \in [D -> 0..t]}} :
        D \in SetsUpTo(NodeIds, MaxLocal)}

\* Two stores exchange their exports: each deserializes the serialization
\* the other had before either merge.
exchange(A, B, ts) ==
    [a |-> deserialize_database(A, serialize_to_jsonl(B), ts).db,
     b |-> deserialize_database(B, serialize_to_jsonl(A), ts).db]

\* The store exchanges exports with a peer store B, and then once more.
Exchange(B) ==
    /\ ops < MaxOps
    /\ LET r1 == exchange(Store, B, now)
           r2 == exchange(r1.a, r1.b, now)
       IN  Commit(r1.a, "exchange", TRUE, <<B, r1.b, r2.a, r2.b>>)

InitExchange ==
    /\ now \in 0..MaxClock
    /\ \E S \in ServerStores(now) : nodes = S.nodes /\ edges = S.edges
    /\ anchors = {}
    /\ InitOneOp

NextExchange == \E B \in ServerStores(now) : Exchange(B)

SpecExchange == InitExchange /\ [][NextExchange]_vars

\* db.reload() called by a command, or by the shadow.db watcher after the
\* extension's own save, with no writer active: the copy becomes the file.
\* The record of the operation before it is kept.
ReloadCommand ==
    /\ ~wr.active
    /\ mem' = Store
    /\ last' = [op |-> "reloadCommand", ok |-> TRUE,
                arg |-> <<IF last.op = "reloadCommand" THEN last.arg[1] ELSE last>>]
    /\ pre' = Store
    /\ UNCHANGED <<nodes, anchors, edges, now, ops, qry, q, out, graph, git, wr>>

\* addThought and reload on any store whose anchors are those index_file
\* writes, with a copy that is the file, the file before its edges were
\* written, or the empty database.
InitThought ==
    /\ nodes \in DefaultNodes
    /\ anchors \in {as \in SetsUpTo({a \in AnchorShapes(nodes) :
                                       a.node_id = CodeNodeId(a.file_path, a.symbol_name)},
                                    MaxAnchors) : UniqueKeys(as)}
    /\ edges \in SetsUpTo({e \in EdgeShapes(nodes) : e.relation = "HAS_THOUGHT"}, MaxLocal)
    /\ now = 0
    /\ ops = MaxOps - 1
    /\ last = NoOp
    /\ pre = Store
    /\ qry = Idle
    /\ q = <<>>
    /\ out = <<>>
    /\ graph = <<>>
    /\ git = GitIdle
    /\ mem \in {Store, DB(nodes, anchors, {}), DB(<<>>, {}, {})}
    /\ wr = NoWrite

NextThought ==
    \/ \E f \in Files, y \in Symbols, c \in Contents, t \in ThoughtIds : AddThought(f, y, c, t)
    \/ ReloadCommand

SpecThought == InitThought /\ [][NextThought]_vars

\* The spawned deserializer commits and closes, and onGraphJsonlChanged goes
\* on after its await.  A commit that changed shadow.db raises a change
\* event of the shadow.db watcher (wr.changed); one that changed nothing may
\* still touch the file.
MergeCloses ==
    /\ git.merging > 0
    /\ LET r == deserialize_database(Store, graph, now)
       IN  /\ nodes' = r.db.nodes
           /\ anchors' = r.db.anchors
           /\ edges' = r.db.edges
           /\ last' = [op |-> "merge", ok |-> r.ok, arg |-> <<graph, mem>>]
           /\ mem' = reload_after(r.ok, mem, r.db)
           /\ \E c \in (IF r.db # Store THEN {TRUE} ELSE {TRUE, wr.changed}) :
                 wr' = [wr EXCEPT !.changed = c]
    /\ pre' = Store
    /\ git' = [git EXCEPT !.merging = git.merging - 1]
    /\ UNCHANGED <<now, ops, qry, q, out, graph>>

\* loadFromDisk with a fault: it saves the database it has just read.
loadFromDisk_saves(exists) == TRUE

\* loadFromDisk writes shadow.db (applySchema, saveToDisk) only when the
\* file does not exist.
loadFromDisk(exists) == ~exists

\* The shadow.db watcher's handler: db.reload(), then the code lenses and
\* the decorations are refreshed (reads only).  Events raised before the
\* handler runs are served by this run.
ReloadEvent ==
    /\ wr.changed
    /\ ~wr.active
    /\ mem' = Store
    /\ wr' = [wr EXCEPT !.changed = loadFromDisk(TRUE)]
    /\ last' = [op |-> "reloadEvent", ok |-> TRUE, arg |-> <<getStaleAnchors(Store, "a.py").rows>>]
    /\ pre' = Store
    /\ UNCHANGED <<nodes, anchors, edges, now, ops, qry, q, out, graph, git>>

\* The watcher chain on any store of at most MaxLocal nodes, before the one
\* write of graph.jsonl.
InitChain ==
    /\ \E D \in SetsUpTo(NodeIds, MaxLocal) : nodes = [i \in D |-> DefaultRow(i)]
    /\ anchors = {}
    /\ edges = {}
    /\ now = MaxClock
    /\ ops = 0
    /\ last = NoOp
    /\ pre = Store
    /\ qry = Idle
    /\ q = <<>>
    /\ out = <<>>
    /\ graph = <<>>
    /\ git = [timer |-> FALSE, mtime |-> MaxPulls - 1, lastModified |-> MaxPulls - 1,
              merging |-> 0, skips |-> 0]
    /\ mem = Store
    /\ wr = NoWrite

\* The files a pull leaves in the chain's specification: at most MaxBatch
\* records of the thought, well-formed or not.
ChainFiles == {f \in PulledFiles : Len(f) <= MaxBatch}

NextChain ==
    \/ ExportGraph
    \/ \E f \in ChainFiles : GitPull(f)
    \/ ChangeEvent
    \/ OnGraphJsonlChanged
    \/ MergeCloses
    \/ MergeNoOutput
    \/ ReloadEvent

\* The timer runs out, the subprocess ends and the extension host serves a
\* pending watcher event.
SpecChain ==
    /\ InitChain
    /\ [][NextChain]_vars
    /\ WF_vars(OnGraphJsonlChanged)
    /\ WF_vars(MergeCloses \/ MergeNoOutput)
    /\ WF_vars(ReloadEvent)

\* validate on any store of indexed symbols with constraints attached.
InitConstraint ==
    /\ \E D \in SUBSET {CodeNodeId(f, y) : f \in Files, y \in Symbols}, K \in SUBSET ConstraintIds :
          \E sev \in [K -> Severities] :
             nodes = [i \in D \cup K |->
                        IF i \in K THEN ConstraintRow(sev[i], 0) ELSE DefaultRow(i)]
    /\ anchors \in {as \in SetsUpTo({a \in AnchorShapes(nodes) :
                                       a.node_id = CodeNodeId(a.file_path, a.symbol_name)},
                                    MaxAnchors) : UniqueKeys(as)}
    /\ edges \in SetsUpTo({EdgeRow(x, c, "REQUIRED_BY") :
                              x \in DOMAIN nodes \ ConstraintIds,
                              c \in DOMAIN nodes \cap ConstraintIds}, MaxEdges)
    /\ now = 0
    /\ InitOneOp

SpecConstraint == InitConstraint /\ [][NextValidate]_vars

-----------------------------------------------------------------------------
(* Properties *)

\* Stores the operations leave behind have the shape the drawn initial
\* states of SpecIndex, SpecMerge and SpecQuery assume.
StoreShape ==
    /\ \A a \in anchors : a.node_id \in DOMAIN nodes
    /\ UniqueKeys(anchors)
    /\ edges \subseteq EdgeShapes(nodes)
    /\ \A id \in DOMAIN nodes : nodes[id].created_at <= now

\* C1: in every reachable state, every edge's source_id and target_id are
\* ids of nodes that exist in the store.
C1_EdgesReferenceNodes ==
    \A e \in edges : e.source_id \in DOMAIN nodes /\ e.target_id \in DOMAIN nodes

\* C2: an addEdge whose source or target node does not exist fails (NotFound)
\* and leaves nodes, anchors and edges as they were.  The server's add_edge
\* and the edge insert of the extension's addThought are both addEdge; for
\* the latter the nodes are those after its own thought node was inserted.
C2_AddEdgeNotFound ==
    /\ (last.op = "addEdge"
          /\ (last.arg[1] \notin DOMAIN pre.nodes \/ last.arg[2] \notin DOMAIN pre.nodes))
       => (~last.ok /\ Store = pre)
    /\ (last.op = "addThought"
          /\ CodeNodeId(last.arg[1], last.arg[2]) \notin DOMAIN pre.nodes \cup {last.arg[4]})
       => (~last.ok /\ edges = pre.edges)

\* C3: after deleteNode(id) no anchor of id and no edge touching id remains,
\* and every node, anchor and edge not touching id is unchanged.
C3_DeleteCascades ==
    last.op = "deleteNode" =>
        LET id == last.arg[1]
        IN  /\ id \notin DOMAIN nodes
            /\ \A a \in anchors : a.node_id # id
            /\ \A e \in edges : e.source_id # id /\ e.target_id # id
            /\ \A i \in DOMAIN pre.nodes \ {id} : i \in DOMAIN nodes /\ nodes[i] = pre.nodes[i]
            /\ DOMAIN nodes \subseteq DOMAIN pre.nodes
            /\ anchors = {a \in pre.anchors : a.node_id # id}
            /\ edges = {e \in pre.edges : e.source_id # id /\ e.target_id # id}

\* C4: there is at most one anchor for each (file_path, symbol_name) pair.
C4_OneAnchorPerSymbol ==
    \A a, b \in anchors :
        (a.file_path = b.file_path /\ a.symbol_name = b.symbol_name) => a = b

\* Anchors of the store bound to (file, symbol).
AnchorsFor(as, filePath, symbolName) ==
    {a \in as : a.file_path = filePath /\ a.symbol_name = symbolName}

\* C7: after a successful upsertAnchor(nodeId, file, symbol, hash, line) the
\* store holds exactly one anchor for (file, symbol), with the given hash and
\* line and status Valid, whatever was there before.
C7_UpsertAnchorResets ==
    (last.op = "upsertAnchor" /\ last.ok) =>
        AnchorsFor(anchors, last.arg[2], last.arg[3]) =
            {AnchorRow(last.arg[1], last.arg[2], last.arg[3], last.arg[4], last.arg[5], "VALID")}

\* Extracted symbols of a given name.
Named(symbols, name) ==
    {symbols[j] : j \in {k \in 1..Len(symbols) : symbols[k].symbol_name = name}}

\* The extraction carries the symbol of anchor a, always with a's stored hash.
SameHash(a, filePath, symbols) ==
    /\ a.file_path = filePath
    /\ Named(symbols, a.symbol_name) # {}
    /\ \A c \in Named(symbols, a.symbol_name) : compute_ast_hash(c.content) = a.ast_hash

\* The extraction carries the symbol of anchor a, always with another hash.
OtherHash(a, filePath, symbols) ==
    /\ a.file_path = filePath
    /\ Named(symbols, a.symbol_name) # {}
    /\ \A c \in Named(symbols, a.symbol_name) : compute_ast_hash(c.content) # a.ast_hash

\* The anchor index_file keeps for a symbol: the one of the symbol's code node.
OwnAnchor(a) == a.node_id = CodeNodeId(a.file_path, a.symbol_name)

\* C5: re-indexing (index_file or check_drift) a symbol whose hash equals the
\* hash of its Valid anchor leaves that anchor Valid with the same hash; only
\* its start_line may differ afterwards.
C5_UnchangedStaysValid ==
    last.op \in {"index", "checkDrift"} =>
        \A a \in pre.anchors :
            (/\ a.status = "VALID"
             /\ SameHash(a, last.arg[1], last.arg[2])
             /\ (last.op = "index" => OwnAnchor(a)))
            => /\ \E b \in anchors : b = [a EXCEPT !.start_line = b.start_line]
               /\ \A b \in anchors : AnchorKey(b) = AnchorKey(a) =>
                     (b.status = "VALID" /\ b.ast_hash = a.ast_hash)

\* C5 witness: a reformatted symbol was re-indexed at another line and its
\* anchor is the old one moved to that line.
C5_Witness ==
    /\ last.op = "index"
    /\ \E a \in pre.anchors : \E c \in Named(last.arg[2], a.symbol_name) :
          /\ a.status = "VALID"
          /\ SameHash(a, last.arg[1], last.arg[2])
          /\ c.content # a.ast_hash
          /\ c.start_line # a.start_line
          /\ OwnAnchor(a)
          /\ [a EXCEPT !.start_line = c.start_line] \in anchors
          /\ a \notin anchors

\* C6: when check_drift meets an extracted symbol whose hash differs from the
\* hash of its Valid anchor, the anchor becomes Stale and keeps the hash it had.
C6_DriftMarksStale ==
    last.op = "checkDrift" =>
        \A a \in pre.anchors :
            (a.status = "VALID" /\ OtherHash(a, last.arg[1], last.arg[2]))
            => /\ [a EXCEPT !.status = "STALE"] \in anchors
               /\ \A b \in anchors : AnchorKey(b) = AnchorKey(a) =>
                     (b.status = "STALE" /\ b.ast_hash = a.ast_hash)

\* C6 witness: a Valid anchor went Stale on an edited symbol.
C6_Witness ==
    /\ last.op = "checkDrift"
    /\ \E a \in pre.anchors :
          /\ a.status = "VALID"
          /\ OtherHash(a, last.arg[1], last.arg[2])
          /\ [a EXCEPT !.status = "STALE"] \in anchors

\* Ids carried by exactly one line of a batch.
OnceIn(lines, i) == \A j \in 1..Len(lines) : lines[j].id = lines[i].id => j = i

\* C10: when deserialize meets an incoming node record whose id exists locally
\* with a different created_at, the node kept has the content and kind of the
\* later of the two: the incoming record replaces the local node if it is
\* later, the local node is unchanged if the incoming record is earlier.
C10_LaterCreatedAtWins ==
    last.op = "deserialize" =>
        LET lines == last.arg[1]
        IN  \A i \in 1..Len(lines) :
                LET r == lines[i]
                IN  (/\ OnceIn(lines, i)
                     /\ r.id \in DOMAIN pre.nodes
                     /\ r.created_at # pre.nodes[r.id].created_at)
                    => /\ r.id \in DOMAIN nodes
                       /\ IF r.created_at > pre.nodes[r.id].created_at
                          THEN nodes[r.id].content = r.content /\ nodes[r.id].type = r.type
                          ELSE nodes[r.id] = pre.nodes[r.id]

\* C10 witness: a later incoming record replaced a local node of another
\* content and kind.
C10_Witness ==
    /\ last.op = "deserialize"
    /\ \E i \in 1..Len(last.arg[1]) :
          LET r == last.arg[1][i]
          IN  /\ r.id \in DOMAIN pre.nodes
              /\ r.created_at > pre.nodes[r.id].created_at
              /\ r.content # pre.nodes[r.id].content
              /\ r.type # pre.nodes[r.id].type
              /\ nodes[r.id].content = r.content
              /\ nodes[r.id].type = r.type

\* C8: a finished query reports no node id more than once, dependencies and
\* dependents taken together.
C8_NoNodeTwice ==
    qry.status = "done" =>
        \A i, j \in Reported : out[i].id = out[j].id => i = j

\* C9: a started query finishes, whatever the graph and the depth.
C9_QueryTerminates == (qry.status = "running") ~> (qry.status = "done")

\* C9 witness: a query of the largest depth finished on a graph with a
\* DEPENDS_ON cycle through the origin, having walked the cycle back to it.
C9_Witness ==
    /\ qry.status = "done"
    /\ qry.depth = MaxDepth
    /\ \E f \in Files, t \in NodeIds :
          LET o == CodeNodeId(f, qry.origin)
          IN  /\ t # o
              /\ EdgeRow(o, t, "DEPENDS_ON") \in edges
              /\ EdgeRow(t, o, "DEPENDS_ON") \in edges
              /\ \E i \in Reported : out[i].id = o

\* C11: merging the serialization of a store into that same store leaves a
\* store that serializes to the same lines.
C11_RoundTrip ==
    (last.op = "merge" /\ last.arg[1] = serialize_to_jsonl(pre))
    => (last.ok /\ serialize_to_jsonl(Store) = last.arg[1])

\* C11 witness: a store with nodes older than the clock and with edges was
\* exported and merged back.
C11_Witness ==
    /\ last.op = "merge"
    /\ last.arg[1] = serialize_to_jsonl(pre)
    /\ serialize_to_jsonl(Store) = last.arg[1]
    /\ \E id \in DOMAIN pre.nodes : pre.nodes[id].created_at < now
    /\ pre.edges # {}

\* Node lines first, each kind in strictly increasing order of its key.
SortedLines(lines) ==
    \A i, j \in 1..Len(lines) :
        i < j =>
            \/ lines[i].kind = "node" /\ lines[j].kind = "edge"
            \/ /\ lines[i].kind = "node" /\ lines[j].kind = "node"
               /\ NodeRank(lines[i].id) < NodeRank(lines[j].id)
            \/ /\ lines[i].kind = "edge" /\ lines[j].kind = "edge"
               /\ EdgeRank(lines[i]) < EdgeRank(lines[j])

EdgeOf(l) == EdgeRow(l.source_id, l.target_id, l.relation)

WellFormed(l) == l.kind # "malformed"

\* C12: a merge leaves either the store as it was or the store with every
\* well-formed record applied, and no edge of the file is in the store
\* while one of its endpoints is not.
C12_MergeAllOrNothing ==
    last.op = "merge" =>
        LET lines == last.arg[1]
            all == deserialize_database(pre, SelectSeq(lines, WellFormed), now).db
        IN  /\ Store \in {pre, all}
            /\ \A i \in 1..Len(lines) :
                  (lines[i].kind = "edge" /\ EdgeOf(lines[i]) \in edges)
                  => (lines[i].source_id \in DOMAIN nodes /\ lines[i].target_id \in DOMAIN nodes)

\* C13: a malformed line stops only itself: the merge applies the other
\* lines of the file and reports success for them.
C13_MalformedLineIsolated ==
    last.op = "merge" =>
        LET lines == last.arg[1]
        IN  Store = deserialize_database(pre, SelectSeq(lines, WellFormed), now).db

\* C15: after a merge the edges are the edges held before together with the
\* edge records of the file (none in a batch of node records).
C15_EdgesUnion ==
    /\ last.op = "deserialize" => edges = pre.edges
    /\ last.op = "merge" =>
          LET lines == last.arg[1]
          IN  edges = pre.edges \cup
                  {EdgeOf(lines[i]) : i \in {j \in 1..Len(lines) : lines[j].kind = "edge"}}

\* C16: for a local and an incoming record of one id with equal created_at
\* and different sync ids, the record kept is the same whichever of the two is the local one.
C16_TieBreakSymmetric ==
    last.op = "deserialize" =>
        LET lines == last.arg[1]
        IN  \A i \in 1..Len(lines) :
                LET r == lines[i]
                IN  (/\ OnceIn(lines, i)
                     /\ r.id \in DOMAIN pre.nodes
                     /\ r.created_at = pre.nodes[r.id].created_at
                     /\ sha256(<<r.id, r.content>>) # sha256(<<r.id, pre.nodes[r.id].content>>))
                    => LET local == pre.nodes[r.id]
                           swapped == merge_node(
                               DB([x \in {r.id} |-> NodeRow(r.type, r.content, r.created_at)],
                                  {}, {}),
                               NodeRecord(r.id, local.type, local.content, local.created_at),
                               now).nodes[r.id]
                       IN  /\ nodes[r.id].content = swapped.content
                           /\ nodes[r.id].type = swapped.type

\* C17: a save by the extension loses nothing the file held: every node
\* (but the thought written), anchor and edge of the file before the save
\* is in the file after it.
C17_NoLostUpdate ==
    last.op = "addThought" =>
        /\ \A id \in DOMAIN pre.nodes \ {last.arg[4]} :
              id \in DOMAIN nodes /\ nodes[id] = pre.nodes[id]
        /\ pre.anchors \subseteq anchors
        /\ pre.edges \subseteq edges

\* C19: a reload returns the file as it was before the write in progress or
\* as it is after it.
C19_ReloadSeesWholeState ==
    last.op = "reload" => mem \in {last.arg[1], last.arg[2]}

\* C18: at most one merge of graph.jsonl is running.
C18_OneMergeAtATime == git.merging <= 1

\* C20: validate leaves every node, anchor and edge as it was.
C20_ValidateReadOnly == last.op = "validate" => Store = pre

\* C21: validate returns exactly one violation for each pair of a Stale
\* anchor of the file and a constraint that a REQUIRED_BY edge reaches from
\* the anchor's code node with severity critical or high, and none else.
C21_ViolationPerStaleConstraint ==
    last.op = "validate" =>
        \A y \in Symbols, c \in ConstraintIds :
            Cardinality({i \in 1..Len(last.arg[3]) :
                            /\ last.arg[3][i].constraint = c
                            /\ last.arg[3][i].symbol = y})
            = Cardinality({a \in anchors :
                            /\ a.file_path = last.arg[1]
                            /\ a.symbol_name = y
                            /\ a.status = "STALE"
                            /\ c \in DOMAIN nodes
                            /\ EdgeRow(a.node_id, c, "REQUIRED_BY") \in edges
                            /\ severity_of(nodes[c]) \in {"critical", "high"}})

\* C22: upsertNode on an id that already exists keeps the node's original
\* created_at and replaces its type and content with the given ones.
C22_UpsertKeepsCreatedAt ==
    (last.op = "upsertNode" /\ last.arg[1] \in DOMAIN pre.nodes) =>
        /\ last.arg[1] \in DOMAIN nodes
        /\ nodes[last.arg[1]].created_at = pre.nodes[last.arg[1]].created_at
        /\ nodes[last.arg[1]].type = last.arg[2]
        /\ nodes[last.arg[1]].content = last.arg[3]

\* C23: upsertNode, upsertAnchor, addEdge, index_file, check_drift and
\* deserialize remove nothing: every node stays, and every anchor and edge
\* whose nodes existed before the operation is still there after it.
C23_OnlyDeleteRemoves ==
    last.op \in {"upsertNode", "upsertAnchor", "addEdge", "index", "checkDrift", "deserialize"} =>
        /\ DOMAIN pre.nodes \subseteq DOMAIN nodes
        /\ \A a \in pre.anchors :
              a.node_id \in DOMAIN pre.nodes => AnchorKey(a) \in {AnchorKey(b) : b \in anchors}
        /\ \A e \in pre.edges :
              (e.source_id \in DOMAIN pre.nodes /\ e.target_id \in DOMAIN pre.nodes)
                  => e \in edges

ReadOps == {"getThoughtsForSymbol", "getAnchorsForFile", "getStaleAnchors", "getSymbolNames"}

\* C24: getThoughtsForSymbol, getAnchorsForFile, getStaleAnchors and
\* getSymbolNames leave the in-memory copy and the file as they were.
C24_ReadsChangeNothing ==
    last.op \in ReadOps => (mem = last.arg[3] /\ Store = pre)

\* getStaleAnchors has returned rows of a copy that holds Valid and Stale anchors.
C24_Witness ==
    /\ last.op = "getStaleAnchors"
    /\ last.arg[2] # {}
    /\ mem = Store

Ink(c) == c \notin {" ", "\t", "\n"}

\* C25: two texts that are equal once every whitespace character is removed
\* have the same digest.
C25_DigestIgnoresWhitespace ==
    (last.op = "digest" /\ SelectSeq(q[1], Ink) = SelectSeq(q[2], Ink)) => out[1] = out[2]

\* Two different texts with the same ink, one holding a tab or a newline.
C25_Witness ==
    /\ last.op = "digest"
    /\ q[1] # q[2]
    /\ SelectSeq(q[1], Ink) = SelectSeq(q[2], Ink)
    /\ SelectSeq(q[1], Ink) # <<>>
    /\ \E i \in 1..Len(q[1]) : q[1][i] \in {"\t", "\n"}
    /\ out[1] = out[2]

\* C26: a second check_drift on the same file with the same extracted
\* symbols leaves the store as the first run left it and reports nothing.
C26_SecondRunIsNoOp ==
    (last.op = "checkDrift" /\ last.arg[4]) => (Store = pre /\ last.arg[3] = {})

\* An anchor of the file whose symbol the extraction does not hold.
AbsentFromExtraction(a, filePath, symbols) ==
    /\ a.file_path = filePath
    /\ \A j \in 1..Len(symbols) : symbols[j].symbol_name # a.symbol_name

\* C27: check_drift returns normally when an anchor of the file is for a
\* symbol that is absent from the current extraction.
C27_AbsentSymbolNoError ==
    (/\ last.op = "checkDrift"
     /\ \E a \in pre.anchors : AbsentFromExtraction(a, last.arg[1], last.arg[2]))
        => last.ok

\* check_drift has returned on a file with an anchor of a vanished symbol
\* next to an extracted one.
C27_Witness ==
    /\ last.op = "checkDrift"
    /\ last.ok
    /\ last.arg[2] # <<>>
    /\ \E a \in pre.anchors : AbsentFromExtraction(a, last.arg[1], last.arg[2])

\* The ids of the origin rows of the finished query.
OriginIds == {out[i].id : i \in {j \in 1..Len(out) : out[j].level = 0}}

\* C28: the origin is never among the dependencies or the dependents a
\* query reports, even when a cycle leads back to it within the depth.
C28_OriginExcluded ==
    qry.status = "done" => \A i \in Reported : out[i].id \notin OriginIds

\* One hop along a direction: to the targets of a node's edges
\* (dependencies) or to the sources of the edges that reach it (dependents).
Hop(S, forward) ==
    IF forward
    THEN {e.target_id : e \in {x \in edges : x.source_id \in S /\ x.target_id \in DOMAIN nodes}}
    ELSE {e.source_id : e \in {x \in edges : x.target_id \in S /\ x.source_id \in DOMAIN nodes}}

\* The nodes within k hops of the set S along a direction.
RECURSIVE Ball(_, _, _)
Ball(S, k, forward) ==
    IF k = 0 THEN S
    ELSE LET B == Ball(S, k - 1, forward) IN B \cup Hop(B, forward)

\* The nodes at shortest distance 1..depth, each with that distance.
ShortestRows(forward) ==
    {<<n, k>> \in NodeIds \X (1..qry.depth) :
        n \in Ball(OriginIds, k, forward) \ Ball(OriginIds, k - 1, forward)}

\* The (node, depth) pairs a finished query reports in a direction; the
\* rows of dependents carry the relation IMPACTS.
ReportedRows(forward) ==
    {<<out[i].id, out[i].level>> :
        i \in {j \in Reported : (out[j].relation # "IMPACTS") = forward}}

\* C29: in each direction a finished query reports exactly the nodes whose
\* shortest distance from the origin along that direction is 1..maxDepth,
\* each at that distance.
C29_ShortestDepth ==
    qry.status = "done" =>
        \A forward \in BOOLEAN : ReportedRows(forward) = ShortestRows(forward)

C31_DuplicateEdgeNoOp ==
    (/\ last.op = "addEdge"
     /\ EdgeRow(last.arg[1], last.arg[2], last.arg[3]) \in pre.edges
     /\ last.arg[1] \in DOMAIN pre.nodes
     /\ last.arg[2] \in DOMAIN pre.nodes)
        => (last.ok /\ Store = pre)

\* A stored edge between two existing nodes has been added again, next to
\* another edge.
C31_Witness ==
    /\ last.op = "addEdge"
    /\ last.ok
    /\ EdgeRow(last.arg[1], last.arg[2], last.arg[3]) \in pre.edges
    /\ last.arg[1] \in DOMAIN pre.nodes
    /\ last.arg[2] \in DOMAIN pre.nodes
    /\ last.arg[1] # last.arg[2]
    /\ Cardinality(edges) = 2

\* The thoughts (id, content) getThoughtsForSymbol returns on a store.
ThoughtsOn(db, filePath, symbolName) ==
    LET rows == getThoughtsForSymbol(db, filePath, symbolName).rows
    IN  {<<rows[i].id, rows[i].content>> : i \in 1..Len(rows)}

\* C32: after a store's serialization is deserialized into an empty store,
\* thoughtsForSymbol returns on it the thoughts it returns on the first
\* store, for every file and symbol.
C32_ThoughtsSurviveSharing ==
    last.op = "hydrate" =>
        \A f \in Files, y \in Symbols : ThoughtsOn(Store, f, y) = ThoughtsOn(pre, f, y)

\* C33: a burst of events on graph.jsonl, each less than 500 ms after the
\* one before, starts onGraphJsonlChanged exactly once, 500 ms after the
\* last event: never twice, not before that time, and not later.
C33_DebounceOnce ==
    git.events > 0 =>
        /\ git.starts <= 1
        /\ git.starts = 1 => (git.firedAt = DebounceDelay /\ git.timers = {})
        /\ git.starts = 0 => (git.timers # {} /\ git.since <= DebounceDelay)

\* A burst of three events, each within the delay of the one before, has
\* started onGraphJsonlChanged.
C33_Witness ==
    /\ git.events = 3
    /\ git.starts = 1
    /\ git.timers = {}

\* The relation of the edge an attaching operation adds.
AttachRelation(op) == IF op = "add_constraint" THEN "REQUIRED_BY" ELSE "HAS_THOUGHT"

\* C34: adding a thought or a constraint to a symbol either adds the new
\* node and the edge from the symbol's code node to it, or, when the code
\* node does not exist, leaves the store without the new node.
C34_AttachAllOrNothing ==
    (/\ last.op \in {"addThought", "add_thought", "add_constraint"}
     /\ last.arg[4] \notin DOMAIN pre.nodes)
        => \/ /\ last.arg[4] \in DOMAIN nodes
              /\ EdgeRow(CodeNodeId(last.arg[1], last.arg[2]), last.arg[4],
                         AttachRelation(last.op)) \in edges
           \/ /\ CodeNodeId(last.arg[1], last.arg[2]) \notin DOMAIN pre.nodes
              /\ last.arg[4] \notin DOMAIN nodes

\* C35: lastModified never decreases, and onGraphJsonlChanged starts a merge
\* only for a version whose mtime is greater than lastModified, which it
\* then records: no version is merged twice, failed or not.
C35_MergeOncePerVersion ==
    [][/\ git'.lastModified >= git.lastModified
       /\ git'.merging > git.merging =>
             (git.mtime > git.lastModified /\ git'.lastModified = git.mtime)]_vars

\* A version's merge has failed, and a later call of onGraphJsonlChanged for
\* the same version has returned without merging.
C35_Witness ==
    /\ last.op = "merge"
    /\ ~last.ok
    /\ git.skips = 1
    /\ git.merging = 0
    /\ ~git.timer
    /\ git.lastModified = git.mtime

\* C36: db.reload() is called only after the merge has reported status ok;
\* when it reports an error, or prints nothing that parses, the in-memory
\* database stays as it was.
C36_ReloadOnlyAfterOk ==
    /\ (last.op = "merge" /\ ~last.ok) => mem = last.arg[2]
    /\ (last.op = "merge" /\ last.ok) => mem = Store
    /\ last.op = "mergeNoOutput" => mem = last.arg[2]

\* A merge has reported an error while the copy in memory differs from the file.
C36_Witness ==
    /\ last.op = "merge"
    /\ ~last.ok
    /\ mem = last.arg[2]
    /\ mem # Store

\* C37: deserializing the same file a second time in a row changes nothing,
\* and a store that deserializes its own serialization keeps every node and
\* every edge.
C37_DeserializeIdempotent ==
    /\ (last.op = "mergeFile" /\ last.arg[2]) => Store = pre
    /\ last.op = "mergeOwn" => (nodes = pre.nodes /\ edges = pre.edges)

SameGraph(A, B) ==
    /\ DOMAIN A.nodes = DOMAIN B.nodes
    /\ \A i \in DOMAIN A.nodes : /\ A.nodes[i].type = B.nodes[i].type
                                  /\ A.nodes[i].content = B.nodes[i].content
    /\ A.edges = B.edges

\* C38: after two stores have each deserialized the other's serialization
\* they hold the same content and kind for every node id and the same
\* edges, and a further exchange changes neither.
C38_ExchangeConverges ==
    last.op = "exchange" =>
        /\ SameGraph(Store, last.arg[2])
        /\ SameGraph(last.arg[3], Store)
        /\ SameGraph(last.arg[4], last.arg[2])

\* The record of the last operation other than a reload.
LastWrite == IF last.op = "reloadCommand" THEN last.arg[1] ELSE last

\* C39: after addThought(file, symbol, text) has returned id T on a copy that
\* holds an anchor for (file, symbol), getThoughtsForSymbol(file, symbol)
\* has a row with id T and content text, before and after a reload.
C39_AddedThoughtIsListed ==
    (/\ LastWrite.op = "addThought"
     /\ LastWrite.ok
     /\ \E a \in mem.anchors : /\ a.file_path = LastWrite.arg[1]
                               /\ a.symbol_name = LastWrite.arg[2])
    => LET rows == getThoughtsForSymbol(mem, LastWrite.arg[1], LastWrite.arg[2]).rows
       IN  \E i \in 1..Len(rows) : /\ rows[i].id = LastWrite.arg[4]
                                    /\ rows[i].content = LastWrite.arg[3]

\* A thought was added to an anchored symbol and the copy was reloaded.
C39_Witness ==
    /\ last.op = "reloadCommand"
    /\ last.arg[1].op = "addThought"
    /\ \E a \in mem.anchors : /\ a.file_path = last.arg[1].arg[1]
                              /\ a.symbol_name = last.arg[1].arg[2]
    /\ mem = Store
    /\ last.arg[1].arg[4] \in DOMAIN mem.nodes

Quiet == ~git.timer /\ git.merging = 0 /\ ~wr.changed

\* C40: after the write of graph.jsonl the chain of timer, merge, shadow.db
\* event and reload comes to rest: from some point on no timer is pending,
\* no merge runs and no reload is due.
C40_ChainQuiesces == <>[]Quiet

\* The chain has run to its end: the written version was merged, the reload
\* for the shadow.db event was served, and nothing is pending.
C40_Witness ==
    /\ Quiet
    /\ last.op = "reloadEvent"
    /\ git.lastModified = MaxPulls
    /\ mem = Store

====
